---------------------------- MODULE Spec2Model ----------------------------
(***************************************************************************)
(* Model of the transcript extraction backend (Flask routes, the           *)
(* DatabaseManager with its MongoDB collections and in-memory fallback,    *)
(* the caption and audio transcribers and the upload pipeline).            *)
(*                                                                         *)
(* Texts are sequences of word tokens, so that "starts with", emptiness    *)
(* and concatenation are computed, not assumed.  A handler is an operator  *)
(* from the stores and the request to the set of its possible outcomes     *)
(* (response and stores afterwards); the action of the handler takes one.  *)
(***************************************************************************)
EXTENDS Integers, Sequences, FiniteSets, TLC

\* ------------------------------------------------------------------ bounds

\* Number of document ids (ObjectId / uuid4 values) the model hands out.
MaxRecords == 2

\* Number of segments of the audio handed to chunked transcription.
MaxSegments == 3

\* ------------------------------------------------------------ request data

Users == {"A", "B"}
\* A request without a valid bearer token.
Anon == "anon"
Callers == Users \cup {Anon}
\* Value of a missing user_id key.
NoUser == ""

\* "u1", "u2": URLs matching a YouTube pattern; "bad": one that matches none.
ValidUrls == {"u1", "u2"}
RequestUrls == ValidUrls \cup {"bad"}
Methods == {"captions", "audio", "other"}
ItemTypes == {"url", "video"}
\* Uploaded files: the filename and the hash of the bytes.
Files == {[name |-> "a.mp4", hash |-> 1], [name |-> "b.mp4", hash |-> 2]}
\* The document ids a request can name.
Ids == 1 .. MaxRecords

\* Outcomes of the platform's caption tracks for one request.
CaptionOutcomes == {"text", "none", "error", "empty"}
\* The audio outcomes the request actions draw from.
RouteAudioOutcomes == {"ok", "not_understood"}
\* The outcomes of the extraction step a request with method m can meet.
OutcomesOf(m) ==
    IF m = "captions" THEN CaptionOutcomes
    ELSE IF m = "audio" THEN RouteAudioOutcomes
    ELSE {"unused"}

\* Flask worker threads serving requests at the same time.
Workers == {"w1", "w2"}

\* A segment of audio: what the recognizer makes of it, and the words it
\* hears when it understands it.
Segments ==
    {[kind |-> "speech", words |-> <<"hello">>],
     [kind |-> "speech", words |-> <<"world">>],
     [kind |-> "not_understood", words |-> <<>>],
     [kind |-> "request_error", words |-> <<>>]}
\* The method argument of the chunked transcription.
ChunkMethods == {"google", "sphinx", "wit"}
\* Whether pydub, speech_recognition and the audio download are available.
SetupOutcomes == {"ok", "failed"}
\* chunk_duration, in seconds.
ChunkDuration == 60

\* What fails while one request runs ("none": nothing): the video platform,
\* reads of or writes to Url_transcripts_collection, reads of or writes to
\* Video_transcriptions_collection, or operations on video_data_collection.
Faults == {"none", "platform", "url_find", "url_write", "video_find",
           "video_write", "categorical", "insights"}

\* ------------------------------------------------------------------- texts

CaptionText == <<"caption", "words">>
AudioText == <<"spoken", "words">>
WhisperText == <<"whisper", "words">>
FailedPrefix == <<"Audio", "transcription", "failed:">>

StartsWith(t, p) == Len(t) >= Len(p) /\ SubSeq(t, 1, Len(p)) = p

\* Python truthiness of Optional[str].
None == [isNone |-> TRUE, val |-> <<>>]
Some(t) == [isNone |-> FALSE, val |-> t]
Truthy(o) == ~o.isNone /\ o.val # <<>>

\* -------------------------------------------------------------- variables

VARIABLES
    use_memory,           \* DatabaseManager.use_memory, fixed at construction
    transcripts,          \* Url_transcripts_collection
    memory,               \* MemoryStorage.transcripts
    video_transcriptions, \* Video_transcriptions_collection
    video_data,           \* video_data_collection (categorical records)
    nextId,               \* next fresh document id
    inflight,             \* per worker: an extract request between lookup and store
    chunked,              \* the result of the last chunked transcription
    call,                 \* a call of a library function: arguments, then result
    resp,                 \* the response of the last completed request
    sessions,             \* sessions_collection
    messages,             \* messages_collection
    chatting              \* per worker: a chat request between its database calls

vars == <<use_memory, transcripts, memory, video_transcriptions, video_data,
          nextId, inflight, chunked, call, resp, sessions, messages, chatting>>

\* The chat collections and the chat requests in flight.
chat == <<sessions, messages, chatting>>

\* ------------------------------------------------------------- documents

\* The document store_transcript builds for Url_transcripts_collection.
TranscriptDoc(id, url, user, content) ==
    [id |-> id, video_url |-> url, user_id |-> user,
     transcript_content |-> content, status |-> "completed"]

\* The document process_video builds for Video_transcriptions_collection.
UploadDoc(id, user, file, content) ==
    [id |-> id, user_id |-> user, video_filename |-> file.name,
     file_hash |-> file.hash, transcribed_text |-> content,
     status |-> "completed"]

\* The dict MemoryStorage.save_transcript builds: it receives no user id.
MemoryDoc(id, url, content) ==
    [id |-> id, video_url |-> url, transcript_content |-> content]

\* The document store_video_data_categorical builds; source_id 0 is None.
CategoricalDoc(vid, user, stype, sid, url, content) ==
    [video_id |-> vid, user_id |-> user, source_type |-> stype,
     source_id |-> sid, url |-> url, transcript |-> content]

\* What the routes read of a looked-up transcript; id 0: no document.
DocView(id, url, user, content) ==
    [id |-> id, video_url |-> url, user_id |-> user,
     transcript_content |-> content]

NoDoc == DocView(0, "", NoUser, <<>>)

ViewOfTranscript(d) ==
    DocView(d.id, d.video_url, d.user_id, d.transcript_content)

ViewOfMemory(d) == DocView(d.id, d.video_url, NoUser, d.transcript_content)

\* -------------------------------------------------------------- responses

\* A response: the HTTP code, what the body carries, and the steps the
\* handler ran.  owners: the user_id values of the documents whose content
\* the body carries.
Response(op, caller, url, id, code, from_cache, text, owners, trace, detail) ==
    [op |-> op, caller |-> caller, url |-> url, id |-> id, code |-> code,
     from_cache |-> from_cache, text |-> text, owners |-> owners,
     trace |-> trace, detail |-> detail]

NoResponse == Response("none", Anon, "", 0, 0, FALSE, <<>>, {}, <<>>, "")

\* An error response: an error text and no document content.
Failure(op, code, trace, detail) ==
    Response(op, Anon, "", 0, code, FALSE, <<>>, {}, trace, detail)

\* 401: no valid bearer token.
Unauthorized == Failure("any", 401, <<>>, "auth")

\* An outcome of a handler: its response and the stores afterwards.
Outcome(r, t, m, vt, vd, n) ==
    [resp |-> r, transcripts |-> t, memory |-> m,
     video_transcriptions |-> vt, video_data |-> vd, nextId |-> n]

\* The outcome of a handler that answers r and writes nothing.
Unchanged(r) ==
    Outcome(r, transcripts, memory, video_transcriptions, video_data, nextId)

Written(out) ==
    <<out.transcripts, out.memory, out.video_transcriptions, out.video_data>>

stores == <<transcripts, memory, video_transcriptions, video_data>>

\* A handler ends with outcome `out`.
Complete(out) ==
    /\ out.nextId <= MaxRecords + 1
    /\ resp' = out.resp
    /\ transcripts' = out.transcripts
    /\ memory' = out.memory
    /\ video_transcriptions' = out.video_transcriptions
    /\ video_data' = out.video_data
    /\ nextId' = out.nextId
    /\ UNCHANGED use_memory

\* ------------------------------------------------------ DatabaseManager

\* MemoryStorage.get_transcript_by_url: the first match in insertion order.
MemoryGetByUrl(url) ==
    LET hits == {d \in memory : d.video_url = url}
    IN  IF hits = {} THEN NoDoc
        ELSE ViewOfMemory(CHOOSE d \in hits : \A e \in hits : d.id <= e.id)

\* find_one({'video_url': url}): the first match in natural (insertion)
\* order; the filter names no user_id.
MongoFindByUrl(url) ==
    LET hits == {d \in transcripts : d.video_url = url}
    IN  IF hits = {} THEN NoDoc
        ELSE ViewOfTranscript(CHOOSE d \in hits : \A e \in hits : d.id <= e.id)

\* A lookup that never finds the stored record.
get_transcript_by_url_miss(url, f) == NoDoc

\* DatabaseManager.get_transcript_by_url.  A backend error is caught and
\* answered with None.
get_transcript_by_url(url, f) ==
    IF use_memory THEN MemoryGetByUrl(url)
    ELSE IF f = "url_find" THEN NoDoc
    ELSE MongoFindByUrl(url)

\* DatabaseManager.store_video_data_categorical on a manager in memory mode
\* (mem) or not: [ok, docs]: whether it returned (FALSE: it raised) and the
\* collection afterwards.
store_video_data_categorical(mem, vid, user, stype, sid, url, content, f) ==
    IF mem THEN [ok |-> TRUE, docs |-> video_data]
    ELSE IF f = "categorical" THEN [ok |-> FALSE, docs |-> video_data]
    ELSE [ok |-> TRUE,
          docs |-> video_data \cup
                     {CategoricalDoc(vid, user, stype, sid, url, content)}]

\* ------------------------------------------------------ insight extraction

\* Number of content words in a transcript text.
MaxTokens == 3

\* Most keywords kept: word_freq.most_common(10).
TopKeywords == 10

\* A transcript text, as far as insight extraction reads it:
\*   tokens:   its content words, in order;
\*   filler:   how many further words follow, all of them stop words;
\*   pieces:   len(re.split(r'[.!?]+', text)), never less than 1;
\*   blank:    how many of these pieces are empty: the piece after a
\*             closing full stop, or every piece of a text without words;
\*   polarity: TextBlob's polarity of the first 1000 characters, in
\*             ten-thousandths.
Text(tokens, filler, pieces, blank, polarity) ==
    [tokens |-> tokens, filler |-> filler, pieces |-> pieces,
     blank |-> blank, polarity |-> polarity]

Vocabulary == {"data", "game", "the", "app", "Error:"}
Polarities == {-10000, -1004, -1000, 0, 1000, 1004, 10000}

\* What can go wrong inside the extraction: TextBlob raises, or
\* blob.detect_language(), a request to a translation service, raises.
InsightFaults == {"none", "scorer", "language"}

EmptyText(text) == text.tokens = <<>> /\ text.filler = 0

\* text.split(): the content words and the filler words.
WordCount(text) == Len(text.tokens) + text.filler

\* len(transcript_content) > 50: the content words of a text are fewer
\* than 50 characters, twenty filler words are more.
LongText(text) == text.filler > 0

\* Python's round to a multiple of 1/d of n/d: to the nearest, a tie to
\* the even neighbour.
\* n \div d rounds toward minus infinity and n % d is in 0..d-1.
RoundHalfEven(n, d) ==
    LET q == n \div d
        r == n % d
    IN  IF 2 * r < d THEN q
        ELSE IF 2 * r > d THEN q + 1
        ELSE IF q % 2 = 0 THEN q ELSE q + 1

\* A readability score without the clamp to [0, 100].
calculate_readability_unclamped(text) ==
    IF WordCount(text) = 0 THEN 0
    ELSE RoundHalfEven(1000 * text.pieces - 20 * WordCount(text),
                       text.pieces)

\* _calculate_readability, in tenths: 0 for a text without words, else
\* round(max(0, min(100, 100 - 2 * words / sentences)), 1).
calculate_readability(text) ==
    LET words == WordCount(text)
        sentences == text.pieces
        raw == 1000 * sentences - 20 * words
        clamped == IF raw < 0 THEN 0
                   ELSE IF raw > 1000 * sentences THEN 1000 * sentences
                   ELSE raw
    IN  IF sentences = 0 \/ words = 0 THEN 0
        ELSE RoundHalfEven(clamped, sentences)

\* The words of the vocabulary in stop_words.
StopWords == {"the"}

\* len(word).
Letters(w) ==
    CASE w \in {"the", "app"} -> 3
      [] w \in {"data", "game"} -> 4
      [] OTHER -> 5

\* re.findall(r'\b[a-zA-Z]{3,}\b', text.lower()): every word of the
\* vocabulary has three letters or more; the colon is not part of a word.
LowerCase(w) == IF w = "Error:" THEN "error" ELSE w

\* word not in stop_words and len(word) > 3.

FilteredWords(text) ==
    LET words == [i \in DOMAIN text.tokens |-> LowerCase(text.tokens[i])]
    IN  SelectSeq(words, LAMBDA w :
                            w \notin StopWords /\ Letters(w) > 3)

\* Counter(words): how often a word occurs, and where it occurs first
\* (the Counter keeps its keys in the order of first occurrence).
CountOf(words, w) == Cardinality({i \in DOMAIN words : words[i] = w})

FirstOf(words, w) ==
    CHOOSE i \in DOMAIN words :
        /\ words[i] = w
        /\ \A j \in DOMAIN words : words[j] = w => i <= j

\* most_common ranks a before b: by falling count; words of equal count
\* stay in the order of their first occurrence.
RanksBefore(words, a, b) ==
    \/ CountOf(words, a) > CountOf(words, b)
    \/ /\ CountOf(words, a) = CountOf(words, b)
       /\ FirstOf(words, a) < FirstOf(words, b)

RECURSIVE Ranked(_, _)
Ranked(words, remaining) ==
    IF remaining = {} THEN <<>>
    ELSE LET best == CHOOSE a \in remaining :
                        \A b \in remaining \ {a} : RanksBefore(words, a, b)
         IN  <<best>> \o Ranked(words, remaining \ {best})

\* Counter(filtered_words).most_common(10).
MostCommon(words) ==
    LET ranked == Ranked(words, {words[i] : i \in DOMAIN words})
    IN  IF Len(ranked) <= TopKeywords THEN ranked
        ELSE SubSeq(ranked, 1, TopKeywords)

\* The label of a polarity: the thresholds are applied to the score
\* before it is rounded.
SentimentLabel(polarity) ==
    IF polarity > 1000 THEN "positive"
    ELSE IF polarity < -1000 THEN "negative"
    ELSE "neutral"

\* The topics, in the order the clusters are tested; a cluster keyword
\* anywhere in the lower-cased text names the topic.
DetectedTopics(text) ==
    LET has(ws) == \E i \in DOMAIN text.tokens : text.tokens[i] \in ws
    IN  (IF has({"data", "app"}) THEN <<"Technology">> ELSE <<>>)
        \o (IF has({"game"}) THEN <<"Entertainment">> ELSE <<>>)

Insights(keywords, score, label, topics, language, readability) ==
    [empty |-> FALSE, keywords |-> keywords,
     sentiment |-> [score |-> score, label |-> label], topics |-> topics,
     language_detected |-> language, readability_score |-> readability]

\* The empty dict.
EmptyInsights ==
    [empty |-> TRUE, keywords |-> <<>>,
     sentiment |-> [score |-> 0, label |-> ""], topics |-> <<>>,
     language_detected |-> "", readability_score |-> 0]

\* The cases in which _extract_structured_data returns {}: an empty text,
\* one that starts with 'Error:', and an exception anywhere inside; the
\* language is asked of the translation service only for a text of more
\* than 50 characters.
NoInsights(text, fault) ==
    \/ EmptyText(text)
    \/ text.tokens # <<>> /\ text.tokens[1] = "Error:"
    \/ fault = "scorer"
    \/ LongText(text) /\ fault = "language"

\* _extract_structured_data.  The sentiment score is kept rounded to
\* thousandths.
extract_structured_data(text, fault) ==
    IF NoInsights(text, fault) THEN EmptyInsights
    ELSE Insights(MostCommon(FilteredWords(text)),
                  RoundHalfEven(text.polarity, 10),
                  SentimentLabel(text.polarity),
                  DetectedTopics(text),
                  "en",
                  calculate_readability(text))

\* The transcript text store_transcript hands to insight extraction.
TextOf(content) ==
    Text(content, 0, 1, IF content = <<>> THEN 1 ELSE 0, 0)

\* The step store_transcript notes for the insights it got.
InsightStep(content, fault) ==
    IF NoInsights(TextOf(content), fault) THEN "insights_empty"
    ELSE "insights"

\* A store_transcript that raises when insight extraction fails.
store_transcript_strict(id, url, user, content, f) ==
    LET doc == TranscriptDoc(id, url, user, content)
        cat == store_video_data_categorical(FALSE, id, user, "url", id,
                                            url, content, f)
    IN  IF use_memory
        THEN [ok |-> TRUE, transcripts |-> transcripts,
              memory |-> memory \cup {MemoryDoc(id, url, content)},
              video_data |-> video_data, trace |-> <<"save_memory">>]
        ELSE IF f \in {"url_write", "insights"}
        THEN [ok |-> FALSE, transcripts |-> transcripts, memory |-> memory,
              video_data |-> video_data, trace |-> <<"insights_empty">>]
        ELSE [ok |-> cat.ok, transcripts |-> transcripts \cup {doc},
              memory |-> memory, video_data |-> cat.docs,
              trace |-> <<"insights", "insert_primary">>]

\* DatabaseManager.store_transcript with the fresh id `id`:
\* [ok, transcripts, memory, video_data, trace].  The memory store keeps
\* neither insights nor a categorical record.  In the other mode the
\* insights are extracted first (f = "insights": something raises inside
\* the extraction) and go into both documents as they come.
store_transcript(id, url, user, content, f) ==
    LET step == InsightStep(content,
                            IF f = "insights" THEN "scorer" ELSE "none")
    IN  IF use_memory
        THEN [ok |-> TRUE, transcripts |-> transcripts,
              memory |-> memory \cup {MemoryDoc(id, url, content)},
              video_data |-> video_data, trace |-> <<"save_memory">>]
        ELSE IF f = "url_write"
        THEN [ok |-> FALSE, transcripts |-> transcripts, memory |-> memory,
              video_data |-> video_data, trace |-> <<step>>]
        ELSE LET doc == TranscriptDoc(id, url, user, content)
                 cat == store_video_data_categorical(FALSE, id, user, "url",
                                                     id, url, content, f)
             IN  [ok |-> cat.ok, transcripts |-> transcripts \cup {doc},
                  memory |-> memory, video_data |-> cat.docs,
                  trace |-> IF cat.ok
                            THEN <<step, "insert_primary", "insert_derived">>
                            ELSE <<step, "insert_primary">>]

\* ---------------------------------------------------------- transcribers

\* A caption extractor that answers a placeholder text when there is no
\* usable track.
extract_clean_captions_placeholder(outcome, f) ==
    IF f # "platform" /\ outcome = "text" THEN Some(CaptionText)
    ELSE Some(<<"no", "captions">>)

\* CleanYouTubeTranscriber.extract_clean_captions: None when there is no
\* usable track and when anything raises.
extract_clean_captions(outcome, f) ==
    IF f = "platform" THEN None
    ELSE CASE outcome = "text" -> Some(CaptionText)
           [] outcome = "empty" -> Some(<<>>)
           [] OTHER -> None

\* AudioTranscriber.download_and_transcribe_audio: always a string.
download_and_transcribe_audio(outcome, f) ==
    IF outcome = "no_sr"
    THEN Some(FailedPrefix \o <<"speech_recognition", "not", "installed">>)
    ELSE IF f = "platform" \/ outcome = "exception"
    THEN Some(FailedPrefix \o <<"exception">>)
    ELSE CASE outcome = "no_download" ->
                Some(FailedPrefix \o <<"Could", "not", "download">>)
           [] outcome = "not_understood" ->
                Some(FailedPrefix \o <<"Could", "not", "understand", "audio">>)
           [] outcome = "request_error" ->
                Some(FailedPrefix \o <<"request", "error">>)
           [] OTHER -> Some(AudioText)

\* A metadata lookup that does not validate the URL first.
get_video_info_unvalidated(url, f) ==
    IF f = "platform" THEN "failed" ELSE "ok"

\* VideoInfoExtractor.get_video_info: "ok" or the kind of its error field.
get_video_info(url, f) ==
    IF url \notin ValidUrls THEN "invalid"
    ELSE IF f = "platform" THEN "failed"
    ELSE "ok"

\* ------------------------------------------------------ /extract-transcript

\* A cache hit that fetches the captions again before it answers.
CacheResponseRefetch(caller, url, existing) ==
    Response("extract", caller, url, existing.id, 200, TRUE,
             existing.transcript_content, {existing.user_id} \ {NoUser},
             <<"info", "captions", "lookup">>, "cache")

\* The response that serves the cached record `existing`.
CacheResponse(caller, url, existing) ==
    Response("extract", caller, url, existing.id, 200, TRUE,
             existing.transcript_content, {existing.user_id} \ {NoUser},
             <<"info", "lookup">>, "cache")

\* extract_transcript up to the extraction step: the possible results
\* [done, resp, text, trace]; done: the handler has returned resp.
ExtractChecks(caller, url, method, outcome, f) ==
    LET info == get_video_info(url, f)
        existing == get_transcript_by_url(url, f)
        text ==
            IF method = "captions" THEN extract_clean_captions(outcome, f)
            ELSE download_and_transcribe_audio(outcome, f)
        step == IF method = "captions" THEN "captions" ELSE "audio"
        Returned(r) == [done |-> TRUE, resp |-> r, text |-> <<>>, trace |-> <<>>]
    IN  IF caller = Anon THEN {Returned(Unauthorized)}
        ELSE IF info = "invalid"
        THEN {Returned(Failure("extract", 400, <<"info">>, "invalid_url"))}
        ELSE IF info = "failed"
        THEN {Returned(Failure("extract", 503, <<"info">>, "network_error")),
              Returned(Failure("extract", 400, <<"info">>, "info_failed"))}
        ELSE IF existing.id # 0
        THEN {Returned(CacheResponse(caller, url, existing))}
        ELSE IF method \notin {"captions", "audio"}
        THEN {Returned(Failure("extract", 400, <<"info", "lookup">>,
                               "invalid_method"))}
        ELSE IF ~Truthy(text)
        THEN {Returned(Failure("extract", 503, <<"info", "lookup", step>>,
                               IF method = "captions" THEN "try_audio"
                               ELSE "try_captions"))}
        ELSE {[done |-> FALSE, resp |-> NoResponse, text |-> text.val,
               trace |-> <<"info", "lookup", step>>]}

\* extract_transcript from store_transcript on: the outcome.
ExtractStore(caller, url, text, trace, f) ==
    LET st == store_transcript(nextId, url, caller, text, f)
        r == IF st.ok
             THEN Response("extract", caller, url, nextId, 200, FALSE, text,
                           {caller}, trace \o st.trace, "extracted")
             ELSE Failure("extract", 500, trace \o st.trace, "internal")
        used == st.transcripts # transcripts \/ st.memory # memory
    IN  Outcome(r, st.transcripts, st.memory, video_transcriptions,
                st.video_data, IF used THEN nextId + 1 ELSE nextId)

\* extract_transcript: the possible outcomes of one request.
ExtractOutcomes(caller, url, method, outcome, f) ==
    {IF c.done THEN Unchanged(c.resp)
     ELSE ExtractStore(caller, url, c.text, c.trace, f) :
        c \in ExtractChecks(caller, url, method, outcome, f)}

Extract(caller, url, method, outcome, f) ==
    /\ \E out \in ExtractOutcomes(caller, url, method, outcome, f) :
         Complete(out)
    /\ UNCHANGED <<inflight, chunked, call, chat>>

\* -------------------------------------------------- reads by id (routes)

\* get_transcript: find_one({'_id', 'user_id'}) on Url_transcripts_collection.
GetTranscriptResponse(caller, id, f) ==
    LET hits == {d \in transcripts : d.id = id /\ d.user_id = caller}
    IN  IF caller = Anon THEN Unauthorized
        ELSE IF f = "url_find" THEN Failure("get", 500, <<>>, "internal")
        ELSE IF hits = {} THEN Failure("get", 404, <<>>, "not_found")
        ELSE LET d == CHOOSE x \in hits : TRUE
             IN  Response("get", caller, d.video_url, id, 200, FALSE,
                          d.transcript_content, {d.user_id}, <<>>, "found")

\* get_categorical_video: find_one({'video_id', 'user_id'}).
GetCategoricalResponse(caller, vid, f) ==
    LET hits == {d \in video_data : d.video_id = vid /\ d.user_id = caller}
    IN  IF caller = Anon THEN Unauthorized
        ELSE IF f = "categorical"
        THEN Failure("get_categorical", 500, <<>>, "internal")
        ELSE IF hits = {}
        THEN Failure("get_categorical", 404, <<>>, "not_found")
        ELSE LET d == CHOOSE x \in hits : TRUE
             IN  Response("get_categorical", caller, d.url, vid, 200, FALSE,
                          d.transcript, {d.user_id}, <<>>, "found")

\* get_video_transcript: check_db_connection, then
\* find_one({"_id", "user_id"}) on Video_transcriptions_collection.
GetVideoTranscriptResponse(caller, id, f) ==
    LET hits == {d \in video_transcriptions :
                    d.id = id /\ d.user_id = caller}
    IN  IF caller = Anon THEN Unauthorized
        ELSE IF f = "video_find"
        THEN Failure("get_video", 503, <<>>, "db_unavailable")
        ELSE IF hits = {} THEN Failure("get_video", 404, <<>>, "not_found")
        ELSE LET d == CHOOSE x \in hits : TRUE
             IN  Response("get_video", caller, d.video_filename, id, 200,
                          FALSE, d.transcribed_text, {d.user_id}, <<>>,
                          "found")

\* download_video: no authentication; find_one({"_id"}) names no user_id;
\* the 410 body carries the stored video_filename.
DownloadVideoResponse(caller, id, f) ==
    LET hits == {d \in video_transcriptions : d.id = id}
    IN  IF f = "video_find"
        THEN Failure("download", 503, <<>>, "db_unavailable")
        ELSE IF hits = {} THEN Failure("download", 404, <<>>, "not_found")
        ELSE LET d == CHOOSE x \in hits : TRUE
             IN  Response("download", caller, d.video_filename, id, 410,
                          FALSE, <<>>, {d.user_id}, <<>>, "gone")

DownloadVideo(caller, id, f) ==
    /\ Complete(Unchanged(DownloadVideoResponse(caller, id, f)))
    /\ UNCHANGED <<inflight, chunked, call, chat>>

\* ------------------------------------------------------------- deletions

\* delete_transcript (url_extraction): find_one and delete_one filtered by
\* _id and user_id, then delete_many({'source_id', 'user_id'}) on
\* video_data_collection.
DeleteTranscriptOutcome(caller, id, f) ==
    LET hits == {d \in transcripts : d.id = id /\ d.user_id = caller}
        kept == transcripts \ hits
        cascaded == {d \in video_data :
                        ~(d.source_id = id /\ d.user_id = caller)}
        Deleted(r, vd) ==
            Outcome(r, kept, memory, video_transcriptions, vd, nextId)
    IN  IF caller = Anon THEN Unchanged(Unauthorized)
        ELSE IF f = "url_find"
        THEN Unchanged(Failure("delete", 500, <<>>, "internal"))
        ELSE IF hits = {}
        THEN Unchanged(Failure("delete", 404, <<>>, "not_found"))
        ELSE IF f = "url_write"
        THEN Unchanged(Failure("delete", 500, <<>>, "internal"))
        ELSE IF f = "categorical"
        THEN Deleted(Failure("delete", 500, <<"delete_primary">>, "internal"),
                     video_data)
        ELSE Deleted(Response("delete", caller, "", id, 200, FALSE, <<>>, {},
                              <<"delete_primary", "delete_derived">>,
                              "deleted"),
                     cascaded)

DeleteTranscript(caller, id, f) ==
    /\ Complete(DeleteTranscriptOutcome(caller, id, f))
    /\ UNCHANGED <<inflight, chunked, call, chat>>

\* A history deletion whose filter names the id only, not the user.
DeleteHistoryItemAnyone(caller, itemType, id, f) ==
    LET urlHits == {d \in transcripts : d.id = id}
        videoHits == {d \in video_transcriptions : d.id = id}
        hits == IF itemType = "url" THEN urlHits ELSE videoHits
        r == Response("delete_history", caller, itemType, id, 200, FALSE,
                      <<>>, {}, <<"delete_primary">>, "deleted")
    IN  IF caller = Anon THEN Unchanged(Unauthorized)
        ELSE IF hits = {}
        THEN Unchanged(Failure("delete_history", 404, <<>>, "not_found"))
        ELSE IF itemType = "url"
        THEN Outcome(r, transcripts \ hits, memory, video_transcriptions,
                     video_data, nextId)
        ELSE Outcome(r, transcripts, memory, video_transcriptions \ hits,
                     video_data, nextId)

\* delete_history_item: delete_one({'_id', 'user_id'}) on the collection of
\* the item type; video_data_collection is not touched.
DeleteHistoryItemOutcome(caller, itemType, id, f) ==
    LET urlHits == {d \in transcripts : d.id = id /\ d.user_id = caller}
        videoHits == {d \in video_transcriptions :
                         d.id = id /\ d.user_id = caller}
        hits == IF itemType = "url" THEN urlHits ELSE videoHits
        failing == IF itemType = "url" THEN "url_write" ELSE "video_write"
        r == Response("delete_history", caller, itemType, id, 200, FALSE,
                      <<>>, {}, <<"delete_primary">>, "deleted")
    IN  IF caller = Anon THEN Unchanged(Unauthorized)
        ELSE IF f = failing
        THEN Unchanged(Failure("delete_history", 500, <<>>, "internal"))
        ELSE IF hits = {}
        THEN Unchanged(Failure("delete_history", 404, <<>>, "not_found"))
        ELSE IF itemType = "url"
        THEN Outcome(r, transcripts \ hits, memory, video_transcriptions,
                     video_data, nextId)
        ELSE Outcome(r, transcripts, memory, video_transcriptions \ hits,
                     video_data, nextId)

DeleteHistoryItem(caller, itemType, id, f) ==
    /\ Complete(DeleteHistoryItemOutcome(caller, itemType, id, f))
    /\ UNCHANGED <<inflight, chunked, call, chat>>

\* -------------------------------------------------------- /process_video

\* transcribe_audio_data after extract_audio_from_video: the text, or None
\* when either raises.
transcribe_audio_data(outcome) ==
    IF outcome = "text" THEN Some(WhisperText) ELSE None

\* process_video.  No lookup by file_hash or filename precedes insert_one.
\* The DatabaseManager built for the categorical write runs its own
\* connection test and falls back to memory mode when that fails.
ProcessVideoOutcome(caller, file, outcome, f) ==
    LET text == transcribe_audio_data(outcome)
        doc == UploadDoc(nextId, caller, file, text.val)
        cat == store_video_data_categorical(f = "url_find", nextId, caller,
                                            "upload", nextId, "", text.val, f)
        Inserted(r) ==
            Outcome(r, transcripts, memory, video_transcriptions \cup {doc},
                    cat.docs, nextId + 1)
    IN  IF caller = Anon THEN Unchanged(Unauthorized)
        ELSE IF f = "video_find"
        THEN Unchanged(Failure("process_video", 503, <<>>, "db_unavailable"))
        ELSE IF text.isNone \/ f = "video_write"
        THEN Unchanged(Failure("process_video", 500, <<"whisper">>,
                               "processing_failed"))
        ELSE IF ~cat.ok
        THEN Inserted(Failure("process_video", 500,
                              <<"whisper", "insert_primary">>,
                              "processing_failed"))
        ELSE Inserted(Response("process_video", caller, file.name, nextId,
                               200, FALSE, text.val, {caller},
                               <<"whisper", "insert_primary",
                                 "insert_derived">>, "processed"))

ProcessVideo(caller, file, outcome, f) ==
    /\ Complete(ProcessVideoOutcome(caller, file, outcome, f))
    /\ UNCHANGED <<inflight, chunked, call, chat>>

\* ---------------------------------------------------------- specification

Idle == [caller |-> Anon, url |-> "", text |-> <<>>, trace |-> <<>>]

NoResult == [error |-> TRUE, transcript |-> <<>>, chunks |-> <<>>]

NoChunks ==
    [called |-> FALSE, method |-> "", segments |-> <<>>, setup |-> "",
     result |-> NoResult]

\* No library call is under way.
NoCall == [fn |-> "none", called |-> FALSE]

\* A worker without a chat request, and the chat collections of a fresh
\* database.
ChatIdle == [op |-> "idle", pc |-> "idle", caller |-> Anon, session |-> 0,
             message |-> 0]

NoChat ==
    /\ sessions = {}
    /\ messages = {}
    /\ chatting = [w \in Workers |-> ChatIdle]

Init ==
    /\ use_memory \in BOOLEAN
    /\ transcripts = {}
    /\ memory = {}
    /\ video_transcriptions = {}
    /\ video_data = {}
    /\ nextId = 1
    /\ inflight = [w \in Workers |-> Idle]
    /\ chunked = NoChunks
    /\ call = NoCall
    /\ resp = NoResponse
    /\ NoChat

\* The requests the model sends.  Inputs a handler does not reach are fixed:
\* an unauthenticated request and one with an invalid URL are rejected
\* before anything else is read.
ExtractRequests ==
    {<<c, u, m, o, f>> :
        c \in Users, u \in ValidUrls, m \in Methods,
        o \in CaptionOutcomes \cup RouteAudioOutcomes \cup {"unused"},
        f \in {"none", "platform", "url_find", "url_write", "categorical"}}

ExtractRequest(r) ==
    /\ r[4] \in OutcomesOf(r[3])
    /\ Extract(r[1], r[2], r[3], r[4], r[5])

RejectedExtract(c, u) ==
    /\ c = Anon \/ u \notin ValidUrls
    /\ Extract(c, u, "captions", "text", "none")

UploadRequests ==
    {<<c, file, "text", f>> :
        c \in Users, file \in Files,
        f \in {"none", "url_find", "video_find", "video_write",
               "categorical"}}
    \cup {<<c, file, "raise", "none">> : c \in Users, file \in Files}
    \cup {<<Anon, file, "text", "none">> : file \in Files}

DeleteRequests ==
    {<<c, id, f>> : c \in Users, id \in Ids,
                    f \in {"none", "url_find", "url_write", "categorical"}}
    \cup {<<Anon, id, "none">> : id \in Ids}

HistoryRequests ==
    {<<c, t, id, f>> : c \in Users, t \in ItemTypes, id \in Ids,
                       f \in {"none", "url_write", "video_write"}}
    \cup {<<Anon, t, id, "none">> : t \in ItemTypes, id \in Ids}

Next ==
    \/ \E r \in ExtractRequests : ExtractRequest(r)
    \/ \E c \in Callers, u \in RequestUrls : RejectedExtract(c, u)
    \/ \E r \in UploadRequests : ProcessVideo(r[1], r[2], r[3], r[4])
    \/ \E r \in DeleteRequests : DeleteTranscript(r[1], r[2], r[3])
    \/ \E r \in HistoryRequests : DeleteHistoryItem(r[1], r[2], r[3], r[4])
    \/ \E c \in Callers, id \in Ids, f \in {"none", "video_find"} :
         DownloadVideo(c, id, f)

Spec == Init /\ [][Next]_vars

\* ------------------------------------------------------- record lifecycle

\* get_video_info (url_extraction): the metadata-only probe.  It stores a
\* categorical record with transcript None and source_id None, on success
\* of the metadata lookup only.
ProbeVideoInfoOutcome(caller, url, f) ==
    LET info == get_video_info(url, f)
        cat == store_video_data_categorical(use_memory, nextId, caller, "url",
                                            0, url, <<>>, f)
    IN  IF caller = Anon THEN Unchanged(Unauthorized)
        ELSE IF url = "" THEN Unchanged(Failure("probe", 400, <<>>, "no_url"))
        ELSE IF info # "ok"
        THEN Unchanged(Failure("probe", 400, <<"info">>, info))
        ELSE IF ~cat.ok
        THEN Unchanged(Failure("probe", 500, <<"info">>, "internal"))
        ELSE Outcome(Response("probe", caller, url, 0, 200, FALSE, <<>>, {},
                              <<"info", "insert_derived">>, "probed"),
                     transcripts, memory, video_transcriptions, cat.docs,
                     IF use_memory THEN nextId ELSE nextId + 1)

ProbeVideoInfo(caller, url, f) ==
    /\ Complete(ProbeVideoInfoOutcome(caller, url, f))
    /\ UNCHANGED <<inflight, chunked, call, chat>>

\* DatabaseManager.cleanup_old_transcripts: delete_many on
\* transcripts_collection of every document created before the cutoff;
\* ids grow with creation time, so these are the documents with id < cutoff.
\* video_data_collection is not touched.  In memory mode the collection is
\* None, the call raises inside the try and 0 is returned.
CleanupOldTranscriptsOutcome(cutoff) ==
    LET old == {d \in transcripts : d.id < cutoff}
        r == Response("cleanup", Anon, "", 0, 200, FALSE, <<>>, {},
                      <<"delete_primary">>,
                      IF old = {} THEN "none_deleted" ELSE "deleted")
    IN  IF use_memory THEN Unchanged(Failure("cleanup", 0, <<>>, "error"))
        ELSE Outcome(r, transcripts \ old, memory, video_transcriptions,
                     video_data, nextId)

CleanupOldTranscripts(cutoff) ==
    /\ Complete(CleanupOldTranscriptsOutcome(cutoff))
    /\ UNCHANGED <<inflight, chunked, call, chat>>

\* The requests of a run in which the platform and the backend answer:
\* extraction (insight extraction may fail inside), upload, probe, the two
\* delete routes and the age-based cleanup.
LifecycleNext ==
    \/ \E c \in Users, u \in ValidUrls, m \in Methods :
         \E o \in {"text", "ok", "unused"}, f \in {"none", "insights"} :
            /\ o \in OutcomesOf(m)
            /\ Extract(c, u, m, o, f)
    \/ \E c \in Callers, u \in RequestUrls : RejectedExtract(c, u)
    \/ \E c \in Users, file \in Files : ProcessVideo(c, file, "text", "none")
    \/ \E c \in Callers, u \in RequestUrls : ProbeVideoInfo(c, u, "none")
    \/ \E c \in Users, id \in Ids : DeleteTranscript(c, id, "none")
    \/ \E c \in Users, t \in ItemTypes, id \in Ids :
         DeleteHistoryItem(c, t, id, "none")
    \/ \E cutoff \in 1..(MaxRecords + 1) : CleanupOldTranscripts(cutoff)

LifecycleSpec == Init /\ [][LifecycleNext]_vars

\* ------------------------------------------------- concurrent extraction

\* A worker runs extract_transcript up to the extraction step.  A request
\* that returns there is complete; otherwise the worker holds the text it
\* is about to store.
ExtractBegin(w, caller, url, method, outcome) ==
    /\ inflight[w] = Idle
    /\ \E c \in ExtractChecks(caller, url, method, outcome, "none") :
         IF c.done
         THEN /\ Complete(Unchanged(c.resp))
              /\ UNCHANGED inflight
         ELSE /\ inflight' = [inflight EXCEPT ![w] =
                                [caller |-> caller, url |-> url,
                                 text |-> c.text, trace |-> c.trace]]
              /\ UNCHANGED <<use_memory, transcripts, memory,
                             video_transcriptions, video_data, nextId, resp>>
    /\ UNCHANGED <<chunked, call, chat>>

\* The worker runs store_transcript and answers.
ExtractFinish(w) ==
    /\ inflight[w] # Idle
    /\ Complete(ExtractStore(inflight[w].caller, inflight[w].url,
                             inflight[w].text, inflight[w].trace, "none"))
    /\ inflight' = [inflight EXCEPT ![w] = Idle]
    /\ UNCHANGED <<chunked, call, chat>>

RaceNext ==
    \/ \E w \in Workers, c \in Users, u \in ValidUrls, m \in Methods :
         \E o \in OutcomesOf(m) : ExtractBegin(w, c, u, m, o)
    \/ \E w \in Workers : ExtractFinish(w)

RaceSpec == Init /\ [][RaceNext]_vars

\* -------------------------------------------------- chunked transcription

SphinxUnavailable == <<"Sphinx", "recognition", "not", "available">>
WitUnconfigured == <<"Wit.ai", "transcription", "requires", "API", "key">>

\* AudioTranscriber._transcribe_audio_file on one segment.
transcribe_audio_file(segment, method) ==
    IF method = "google"
    THEN CASE segment.kind = "speech" -> segment.words
           [] segment.kind = "not_understood" ->
                FailedPrefix \o <<"Could", "not", "understand", "audio">>
           [] OTHER -> FailedPrefix \o <<"request", "error">>
    ELSE IF method = "sphinx"
    THEN CASE segment.kind = "speech" -> segment.words
           [] segment.kind = "not_understood" ->
                FailedPrefix \o <<"Could", "not", "understand", "audio">>
           [] OTHER -> SphinxUnavailable
    ELSE WitUnconfigured


\* The chunk_info entry of segment i (1-based here, 'index' is 0-based).
ChunkInfo(segments, method, i) ==
    [index |-> i - 1,
     start_time |-> (i - 1) * ChunkDuration,
     end_time |-> IF i <= Len(segments) THEN i * ChunkDuration
                  ELSE Len(segments) * ChunkDuration,
     transcript |-> transcribe_audio_file(segments[i], method)]

\* ' '.join of the chunk transcripts that do not start with the failure
\* prefix, as the loop collects them.
RECURSIVE JoinChunks(_)
JoinChunks(chunks) ==
    IF chunks = <<>> THEN <<>>
    ELSE LET rest == JoinChunks(Tail(chunks))
         IN  IF StartsWith(Head(chunks).transcript, FailedPrefix)
             THEN rest
             ELSE Head(chunks).transcript \o rest

\* AudioTranscriber.transcribe_audio_chunks.
transcribe_audio_chunks(segments, method, setup) ==
    LET chunks == [i \in 1 .. Len(segments) |->
                     ChunkInfo(segments, method, i)]
    IN  IF setup # "ok"
        THEN [error |-> TRUE, transcript |-> <<>>, chunks |-> <<>>]
        ELSE [error |-> FALSE, transcript |-> JoinChunks(chunks),
              chunks |-> chunks]

SegmentLists == UNION {[1 .. n -> Segments] : n \in 0 .. MaxSegments}


TranscribeChunks ==
    /\ ~chunked.called
    /\ chunked.method \in ChunkMethods
    /\ chunked' = [chunked EXCEPT
                     !.called = TRUE,
                     !.result = transcribe_audio_chunks(
                                    chunked.segments, chunked.method,
                                    chunked.setup)]
    /\ UNCHANGED <<use_memory, transcripts, memory, video_transcriptions,
                   video_data, nextId, inflight, call, resp, chat>>

ChunkInit ==
    /\ use_memory = FALSE
    /\ transcripts = {}
    /\ memory = {}
    /\ video_transcriptions = {}
    /\ video_data = {}
    /\ nextId = 1
    /\ inflight = [w \in Workers |-> Idle]
    /\ call = NoCall
    /\ resp = NoResponse
    /\ NoChat
    /\ \E segments \in SegmentLists, m \in ChunkMethods, s \in SetupOutcomes :
         chunked = [called |-> FALSE, method |-> m,
                    segments |-> segments, setup |-> s,
                    result |-> NoResult]


ChunkSpec == ChunkInit /\ [][TranscribeChunks]_vars

\* ------------------------------------------------- temporary media files

\* The temporary files of video.py, and those inside the temporary
\* directory of the audio transcriber: the download and chunk_<i>.wav.
TempFile(name, i) == [name |-> name, index |-> i]
TempVideo == TempFile("temp_video", 0)
TempAudio == TempFile("temp_audio", 0)
Downloaded == TempFile("audio.wav", 0)
ChunkFile(i) == TempFile("chunk.wav", i)

\* The functions that create temporary media files, and for each the steps
\* that can raise ("none": none does).
TempFunctions ==
    {"extract_audio_from_video", "transcribe_audio_data",
     "download_and_transcribe_audio", "transcribe_audio_chunks"}

FailingSteps(fn) ==
    CASE fn = "extract_audio_from_video" ->
            {"none", "write_video", "create_audio", "write_audiofile",
             "read_audio", "close"}
      [] fn = "transcribe_audio_data" -> {"none", "write_audio", "transcribe"}
      [] fn = "download_and_transcribe_audio" ->
            {"none", "download", "no_wav", "recognize"}
      [] fn = "transcribe_audio_chunks" ->
            {"none", "download", "no_wav", "from_wav", "export"}

\* What a call leaves: the temporary files still on disk and whether it
\* raised.
Left(files, raised) == [files |-> files, raised |-> raised]

\* The except branch of extract_audio_from_video: unlink the video file and
\* then the audio file, each only if its path variable was assigned and
\* the file exists; an unlink that raises ends the branch.  `bad`: the
\* files whose os.unlink raises.
CleanupOnError(assigned, files, bad) ==
    IF TempVideo \in assigned \cap files /\ TempVideo \in bad
    THEN Left(files, TRUE)
    ELSE LET rest == IF TempVideo \in assigned THEN files \ {TempVideo}
                     ELSE files
         IN  IF TempAudio \in assigned \cap rest /\ TempAudio \notin bad
             THEN Left(rest \ {TempAudio}, TRUE)
             ELSE Left(rest, TRUE)

\* extract_audio_from_video.  NamedTemporaryFile(delete=False) creates the
\* file; temp_video_path is assigned after temp_video.write, so a failed
\* write leaves a file whose path the except branch does not know.
extract_audio_from_video(fail, bad) ==
    LET both == {TempVideo, TempAudio}
    IN  CASE fail = "write_video" -> CleanupOnError({}, {TempVideo}, bad)
          [] fail = "create_audio" ->
                CleanupOnError({TempVideo}, {TempVideo}, bad)
          [] fail \in {"write_audiofile", "read_audio", "close"} ->
                CleanupOnError(both, both, bad)
          [] OTHER ->
                IF TempVideo \in bad THEN CleanupOnError(both, both, bad)
                ELSE IF TempAudio \in bad
                THEN CleanupOnError(both, {TempAudio}, bad)
                ELSE Left({}, FALSE)

\* transcribe_audio_data, as to its temporary file: temp_audio_path is
\* assigned after temp_audio.write.
TranscribeAudioDataFiles(fail, bad) ==
    CASE fail = "write_audio" -> CleanupOnError({}, {TempAudio}, bad)
      [] fail = "transcribe" -> CleanupOnError({TempAudio}, {TempAudio}, bad)
      [] OTHER -> IF TempAudio \in bad
                  THEN CleanupOnError({TempAudio}, {TempAudio}, bad)
                  ELSE Left({}, FALSE)

\* The files written into the temporary directory up to the failing step:
\* the download, and one chunk file for each of the n chunks exported.
WrittenToTempDir(fn, fail, n) ==
    LET audio == IF fail \in {"download", "no_wav"} THEN {}
                 ELSE {Downloaded}
        chunks == IF fn = "transcribe_audio_chunks"
                     /\ fail \in {"none", "export"}
                  THEN {ChunkFile(i) : i \in 0..(n - 1)}
                  ELSE {}
    IN  audio \cup chunks

\* download_and_transcribe_audio and transcribe_audio_chunks work inside
\* `with tempfile.TemporaryDirectory()`: leaving the block removes the
\* directory with all it holds; every exception is caught and answered.
TempDirFiles(fn, fail, n) ==
    LET written == WrittenToTempDir(fn, fail, n)
        removed == written
    IN  Left(written \ removed, FALSE)

\* A call of one of these functions: which step fails, which unlinks
\* raise, and how many chunks the audio has.
TempCall(fn, fail, bad, n) ==
    [fn |-> fn, called |-> FALSE, fail |-> fail, bad |-> bad, chunks |-> n,
     created |-> {}, result |-> Left({}, FALSE)]

TempCalls ==
    {TempCall(fn, fail, bad, 0) :
        fn \in {"extract_audio_from_video", "transcribe_audio_data"},
        fail \in FailingSteps("extract_audio_from_video")
                 \cup FailingSteps("transcribe_audio_data"),
        bad \in SUBSET {TempVideo, TempAudio}}
    \cup {TempCall(fn, fail, {}, n) :
            fn \in {"download_and_transcribe_audio",
                    "transcribe_audio_chunks"},
            fail \in FailingSteps("download_and_transcribe_audio")
                     \cup FailingSteps("transcribe_audio_chunks"),
            n \in 0..MaxSegments}

RunTempCall ==
    /\ call.fn \in TempFunctions
    /\ ~call.called
    /\ call' = [call EXCEPT
                  !.called = TRUE,
                  !.created =
                     CASE call.fn = "extract_audio_from_video" ->
                             IF call.fail = "write_video" THEN {TempVideo}
                             ELSE {TempVideo, TempAudio}
                       [] call.fn = "transcribe_audio_data" -> {TempAudio}
                       [] OTHER -> WrittenToTempDir(call.fn, call.fail,
                                                    call.chunks),
                  !.result =
                     CASE call.fn = "extract_audio_from_video" ->
                             extract_audio_from_video(call.fail, call.bad)
                       [] call.fn = "transcribe_audio_data" ->
                             TranscribeAudioDataFiles(call.fail, call.bad)
                       [] OTHER -> TempDirFiles(call.fn, call.fail,
                                                call.chunks)]
    /\ UNCHANGED <<use_memory, transcripts, memory, video_transcriptions,
                   video_data, nextId, inflight, chunked, resp,
                   chat>>

\* The stores are empty and no request is under way: the state in which a
\* library function is called on its own.
Standalone ==
    /\ use_memory = FALSE
    /\ transcripts = {}
    /\ memory = {}
    /\ video_transcriptions = {}
    /\ video_data = {}
    /\ nextId = 1
    /\ inflight = [w \in Workers |-> Idle]
    /\ chunked = NoChunks
    /\ resp = NoResponse
    /\ NoChat

TempInit ==
    /\ Standalone
    /\ call \in {c \in TempCalls : c.fail \in FailingSteps(c.fn)}


TempSpec == TempInit /\ [][RunTempCall]_vars

\* ---------------------------------------------------- caption normalizer

\* Number of caption texts in a payload.
MaxCues == 3

\* Caption texts: a plain word, a word that also is the key of the JSON
\* event stream, and a bracketed sound annotation.
CueTexts == {"hello", "events", "[Music]"}

\* The formats a caption payload arrives in: the JSON event stream
\* ({"events": [{"segs": [{"utf8": ...}]}]}), a JSON document whose top
\* level is an array of such streams, the inline-tag format
\* (<text start=...>...</text>) and the cue format (WEBVTT).
PayloadFormats == {"json", "json_array", "xml", "vtt"}

Payload(format, cues) == [format |-> format, cues |-> cues]

CueLists == UNION {[1..n -> CueTexts] : n \in 0..MaxCues}

Payloads == {Payload(fmt, cues) : fmt \in PayloadFormats, cues \in CueLists}

\* What the normalizer gives back: the words of a text, or the payload as
\* it came (raw), or an exception.
CleanText(words) ==
    [raised |-> FALSE, raw |-> FALSE, words |-> words, payload |-> NoCall]

RawPayload(p) ==
    [raised |-> FALSE, raw |-> TRUE, words |-> <<>>, payload |-> p]

Raised == [raised |-> TRUE, raw |-> FALSE, words |-> <<>>, payload |-> NoCall]

\* _clean_extracted_text: "" for an empty text; otherwise the entities are
\* replaced, music/applause words and bracketed or parenthesised content
\* are removed, whitespace is collapsed and the sentences are rejoined.
clean_extracted_text(words) ==
    IF words = <<>> THEN <<>>
    ELSE SelectSeq(words, LAMBDA w : w # "[Music]")

\* 'events' in raw_captions: the key of a JSON payload, or the word in a
\* caption text of any payload.
MentionsEvents(p) ==
    \/ p.format \in {"json", "json_array"}
    \/ \E i \in DOMAIN p.cues : p.cues[i] = "events"

\* The branch of _extract_clean_text that handles a payload: the tests
\* are substring tests on the payload, made in this order, the first that
\* succeeds decides.
\*   "json":  raw_captions.strip().startswith('{') or 'events' in it;
\*   "xml":   '<text' in it, which a payload without any caption text
\*            does not contain;
\*   "vtt":   'WEBVTT' in it;
\*   "plain": none of these.
FormatBranch(p) ==
    IF p.format = "json" \/ MentionsEvents(p) THEN "json"
    ELSE IF p.format = "xml" /\ p.cues # <<>> THEN "xml"
    ELSE IF p.format = "vtt" THEN "vtt"
    ELSE "plain"

\* The try block of _extract_clean_text.
\*   JSON branch: json.loads; on a JSONDecodeError the regex for
\*     "utf8": "..." is applied to the payload, and finds nothing in a
\*     payload of another format; on a top-level array, .get raises
\*     AttributeError, which the inner handler does not catch.
\*   XML branch: the texts between <text ...> and </text>.
\*   VTT branch: every line that is not a timestamp, blank or the header.
\*   Plain text: the payload as it came, cleaned.
ExtractText(p) ==
    CASE FormatBranch(p) = "json" ->
            CASE p.format = "json" ->
                    CleanText(clean_extracted_text(p.cues))
              [] p.format = "json_array" -> Raised
              [] OTHER -> CleanText(clean_extracted_text(<<>>))
      [] FormatBranch(p) \in {"xml", "vtt"} ->
            CleanText(clean_extracted_text(p.cues))
      [] OTHER -> RawPayload(p)

\* A normalizer without the outer exception handler.
extract_clean_text_unguarded(p) == ExtractText(p)

\* _extract_clean_text: the try block; on any exception the payload is
\* returned as it came.
extract_clean_text(p) ==
    LET r == ExtractText(p)
    IN  IF r.raised THEN RawPayload(p) ELSE r


Normalize ==
    /\ call.fn = "extract_clean_text"
    /\ ~call.called
    /\ call' = [call EXCEPT !.called = TRUE,
                            !.result = extract_clean_text(call.payload)]
    /\ UNCHANGED <<use_memory, transcripts, memory, video_transcriptions,
                   video_data, nextId, inflight, chunked, resp,
                   chat>>

NormalizerInit ==
    /\ Standalone
    /\ \E p \in Payloads :
         call = [fn |-> "extract_clean_text", called |-> FALSE,
                 payload |-> p, result |-> Raised]


NormalizerSpec == NormalizerInit /\ [][Normalize]_vars

\* ---------------------------------------------- insight extraction, alone

Texts ==
    {text \in
        {Text(tokens, filler, pieces, blank, polarity) :
            tokens \in UNION {[1..n -> Vocabulary] : n \in 0..MaxTokens},
            filler \in {0, 20, 60}, pieces \in {1, 2}, blank \in {0, 1},
            polarity \in Polarities} :
        IF WordCount(text) = 0 THEN text.blank = text.pieces
        ELSE text.blank < text.pieces}

\* A call of _extract_structured_data and, on the same text, of
\* _calculate_readability.

ExtractInsights ==
    /\ call.fn = "extract_structured_data"
    /\ ~call.called
    /\ call' = [call EXCEPT
                  !.called = TRUE,
                  !.result = extract_structured_data(call.text, call.fault),
                  !.readability = calculate_readability(call.text)]
    /\ UNCHANGED <<use_memory, transcripts, memory, video_transcriptions,
                   video_data, nextId, inflight, chunked, resp,
                   chat>>

InsightInit ==
    /\ Standalone
    /\ \E text \in Texts, fault \in InsightFaults :
         call = [fn |-> "extract_structured_data", called |-> FALSE,
                 text |-> text, fault |-> fault, result |-> EmptyInsights,
                 readability |-> 0]


InsightSpec == InsightInit /\ [][ExtractInsights]_vars

\* ------------------------------------------------------ caption tracks

\* The languages extract_clean_captions asks for, in its order, and the
\* two dicts of the video's info it looks them up in, in its order.
CaptionLanguages == <<"en", "en-US", "en-GB">>
CaptionKinds == <<"subtitles", "automatic_captions">>

\* What becomes of one track of the video:
\*   "absent":     the language is not in the dict;
\*   "ok":         requests.get answers 200;
\*   "http_error": requests.get answers another status;
\*   "raises":     requests.get raises (a timeout after 30 s, a refused
\*                 connection) or the track has no format to fetch.
FetchOutcomes == {"absent", "ok", "http_error", "raises"}

Languages == {CaptionLanguages[i] : i \in DOMAIN CaptionLanguages}
Kinds == {CaptionKinds[i] : i \in DOMAIN CaptionKinds}
TrackTables == [Kinds -> [Languages -> FetchOutcomes]]

\* The results of the search: the payload of a track, None, or an
\* exception on its way to the handler.
TrackPayload(kind, lang) == [found |-> TRUE, kind |-> kind, lang |-> lang]
NoTrack == [found |-> FALSE, kind |-> "none", lang |-> "none"]
FetchRaised == [found |-> FALSE, kind |-> "raised", lang |-> "none"]

\* One of the two loops `for lang in ['en', 'en-US', 'en-GB']`, from the
\* i-th language on: a track that is there is fetched, a 200 ends the
\* search, another status goes on to the next language, an exception
\* leaves the loop.
RECURSIVE TryLanguages(_, _, _)
TryLanguages(fetch, kind, i) ==
    IF i > Len(CaptionLanguages) THEN NoTrack
    ELSE LET lang == CaptionLanguages[i]
         IN  CASE fetch[kind][lang] = "ok" -> TrackPayload(kind, lang)
               [] fetch[kind][lang] = "raises" -> FetchRaised
               [] OTHER -> TryLanguages(fetch, kind, i + 1)

\* extract_clean_captions, as far as it chooses a track: the manual
\* captions, then the automatic ones; `except Exception` turns an
\* exception of either loop into None.
SearchCaptionTracks(fetch) ==
    LET manual == TryLanguages(fetch, CaptionKinds[1], 1)
        auto == TryLanguages(fetch, CaptionKinds[2], 1)
    IN  IF manual.found THEN manual
        ELSE IF manual = FetchRaised THEN NoTrack
        ELSE IF auto.found THEN auto
        ELSE NoTrack


ExtractCaptions ==
    /\ call.fn = "extract_clean_captions"
    /\ ~call.called
    /\ call' = [call EXCEPT !.called = TRUE,
                            !.result = SearchCaptionTracks(call.fetch)]
    /\ UNCHANGED <<use_memory, transcripts, memory, video_transcriptions,
                   video_data, nextId, inflight, chunked, resp,
                   chat>>

CaptionInit ==
    /\ Standalone
    /\ \E fetch \in TrackTables :
         call = [fn |-> "extract_clean_captions", called |-> FALSE,
                 fetch |-> fetch, result |-> NoTrack]


CaptionSpec == CaptionInit /\ [][ExtractCaptions]_vars

\* ---------------------------------------------------------- chat sessions

\* Number of chat sessions and of chat messages ever created.
MaxSessions == 2
MaxMessages == 2

SessionIds == 1..MaxSessions


\* The response of a chat route.
ChatResponse(op, caller, code) ==
    Response(op, caller, "", code, 0, FALSE, <<>>, {}, <<>>, "")

\* sessions_collection.update_one({'_id': id}, {'$inc': {'message_count':
\* by}}): one atomic update of the document, none when there is no such
\* document.
IncMessageCount(id, by) ==
    {IF x.id = id THEN [x EXCEPT !.message_count = @ + by] ELSE x :
        x \in sessions}



\* create_session: a session document of the user with message_count 0.
CreateSession(c) ==
    /\ Cardinality(sessions) < MaxSessions
    /\ LET id == CHOOSE i \in SessionIds : \A x \in sessions : x.id # i
       IN  sessions' = sessions \cup
               {[id |-> id, user_id |-> c, message_count |-> 0]}
    /\ resp' = ChatResponse("create_session", c, 201)
    /\ UNCHANGED <<use_memory, transcripts, memory, video_transcriptions,
                   video_data, nextId, inflight, chunked, call, messages,
                   chatting>>

\* The first database call of send_message and add_ai_response:
\* sessions_collection.find_one of the caller's session; 404 without it.
FindSession(w, op, c, sid) ==
    /\ nextId + Cardinality({v \in Workers : chatting[v].pc = "insert"})
           <= MaxMessages
    /\ IF \E x \in sessions : x.id = sid /\ x.user_id = c
       THEN /\ chatting' = [chatting EXCEPT
                              ![w] = [op |-> op, pc |-> "insert",
                                      caller |-> c, session |-> sid,
                                      message |-> 0]]
            /\ UNCHANGED resp
       ELSE /\ resp' = ChatResponse(op, c, 404)
            /\ UNCHANGED chatting
    /\ UNCHANGED <<use_memory, transcripts, memory, video_transcriptions,
                   video_data, nextId, inflight, chunked, call, sessions,
                   messages>>

SendMessage(w, c, sid) ==
    /\ chatting[w] = ChatIdle
    /\ FindSession(w, "send_message", c, sid)

AddAiResponse(w, c, sid) ==
    /\ chatting[w] = ChatIdle
    /\ FindSession(w, "add_ai_response", c, sid)

\* messages_collection.insert_one(message_doc).
InsertMessage(w) ==
    /\ chatting[w].pc = "insert"
    /\ messages' = messages \cup
          {[id |-> nextId, session_id |-> chatting[w].session,
            user_id |-> chatting[w].caller,
            sender |-> IF chatting[w].op = "send_message" THEN "user"
                       ELSE "ai"]}
    /\ nextId' = nextId + 1
    /\ chatting' = [chatting EXCEPT ![w].pc = "count",
                                    ![w].message = nextId]
    /\ UNCHANGED <<use_memory, transcripts, memory, video_transcriptions,
                   video_data, inflight, chunked, call, resp, sessions>>

\* The update of the session's message_count that ends send_message and
\* add_ai_response (+1) and delete_message (-1), and the response.
CountMessage(w) ==
    /\ chatting[w].pc = "count"
    /\ sessions' = IncMessageCount(chatting[w].session,
                        IF chatting[w].op = "delete_message" THEN -1 ELSE 1)
    /\ resp' = ChatResponse(chatting[w].op, chatting[w].caller,
                        IF chatting[w].op = "delete_message" THEN 200
                        ELSE 201)
    /\ chatting' = [chatting EXCEPT ![w] = ChatIdle]
    /\ UNCHANGED <<use_memory, transcripts, memory, video_transcriptions,
                   video_data, nextId, inflight, chunked, call, messages>>

\* The first database call of delete_message: messages_collection.find_one
\* of the caller's message; 404 without it.  The request keeps the document
\* it read.
DeleteMessage(w, c, mid) ==
    /\ chatting[w] = ChatIdle
    /\ IF \E m \in messages : m.id = mid /\ m.user_id = c
       THEN LET message == CHOOSE m \in messages :
                               m.id = mid /\ m.user_id = c
            IN  /\ chatting' = [chatting EXCEPT
                      ![w] = [op |-> "delete_message", pc |-> "delete",
                              caller |-> c, session |-> message.session_id,
                              message |-> mid]]
                /\ UNCHANGED resp
       ELSE /\ resp' = ChatResponse("delete_message", c, 404)
            /\ UNCHANGED chatting
    /\ UNCHANGED <<use_memory, transcripts, memory, video_transcriptions,
                   video_data, nextId, inflight, chunked, call, sessions,
                   messages>>

\* messages_collection.delete_one({'_id': message_id}); how many documents
\* it deleted is not looked at.
RemoveMessage(w) ==
    /\ chatting[w].pc = "delete"
    /\ messages' = {m \in messages : m.id # chatting[w].message}
    /\ chatting' = [chatting EXCEPT ![w].pc = "count"]
    /\ UNCHANGED <<use_memory, transcripts, memory, video_transcriptions,
                   video_data, nextId, inflight, chunked, call, resp,
                   sessions>>

ChatNext ==
    \/ \E c \in Users : CreateSession(c)
    \/ \E w \in Workers, c \in Users, sid \in SessionIds :
         SendMessage(w, c, sid)
    \/ \E w \in Workers, c \in Users, sid \in SessionIds :
         AddAiResponse(w, c, sid)
    \/ \E w \in Workers : InsertMessage(w)
    \/ \E w \in Workers, c \in Users, mid \in 1..MaxMessages :
         DeleteMessage(w, c, mid)
    \/ \E w \in Workers : RemoveMessage(w)
    \/ \E w \in Workers : CountMessage(w)

ChatInit ==
    /\ Standalone
    /\ call = NoCall

ChatSpec == ChatInit /\ [][ChatNext]_vars

\* ================================================================ claims

\* The steps named in a trace.
Steps(trace) == {trace[i] : i \in DOMAIN trace}

\* The steps of an extraction and of a store.
WorkSteps == {"captions", "audio", "insights", "insights_empty",
              "insert_primary", "insert_derived", "save_memory"}

\* The response r is a transcript served by extract.
ServedByExtract(r) == r.op = "extract" /\ r.code = 200

\* The records of the URL store in use that hold the source url.
RecordsOf(url) ==
    {d \in (IF use_memory THEN memory ELSE transcripts) : d.video_url = url}

\* The request behind response r stored a record of a source that already
\* had one: its cache lookup failed and was answered "no record".
BypassedCache(r) ==
    /\ ~r.from_cache
    /\ \E d \in RecordsOf(r.url) : d.id < r.id

\* The outcomes of a following extract request on the source url, by any
\* user with any method, when it meets no fault.
SecondExtracts(url) ==
    UNION {UNION {ExtractOutcomes(c, url, m, o, "none") : o \in OutcomesOf(m)} :
             c \in Users, m \in Methods}

\* C1: for every valid URL, when an extract request has returned a
\* transcript, an immediately following extract request on the same URL
\* (any method, any authenticated caller) returns from_cache = true and the
\* same transcript text.  Neither request meets a persistence fault: the
\* second one meets none, and the first one did not store past a failed
\* cache lookup.
C1_ExtractIdempotent ==
    (ServedByExtract(resp) /\ ~BypassedCache(resp)) =>
        \A out \in SecondExtracts(resp.url) :
            /\ out.resp.code = 200
            /\ out.resp.from_cache
            /\ out.resp.text = resp.text
            /\ out.resp.url = resp.url

\* C1 witness: a second extract by the other user has been served the
\* caption text from the cache.
C1_Witness ==
    /\ ServedByExtract(resp)
    /\ resp.from_cache
    /\ resp.text = CaptionText
    /\ resp.caller = "B"
    /\ \E d \in transcripts \cup memory : d.video_url = resp.url

\* C2: after any sequence of extract, process_video and delete requests run
\* one at a time, the primary store holds at most one record per URL and
\* at most one upload record per user, file hash and filename.
C2_OneRecordPerSource ==
    /\ \A u \in ValidUrls : Cardinality(RecordsOf(u)) <= 1
    /\ \A c \in Users, file \in Files :
         Cardinality({d \in video_transcriptions :
                         /\ d.user_id = c
                         /\ d.file_hash = file.hash
                         /\ d.video_filename = file.name}) <= 1

\* C3: after a delete of a transcript by its owner has returned success, on
\* either deletion route, a get of the primary record by id returns
\* not-found and no CategoricalVideo with that source_id can be got.
C3_DeleteCascades ==
    (resp.code = 200 /\ resp.op \in {"delete", "delete_history"}) =>
        /\ GetTranscriptResponse(resp.caller, resp.id, "none").code = 404
        /\ GetVideoTranscriptResponse(resp.caller, resp.id, "none").code = 404
        /\ \A d \in video_data :
             d.source_id = resp.id =>
                GetCategoricalResponse(resp.caller, d.video_id, "none").code
                    = 404

\* C4: no response carries a record, or content of a record, owned by a
\* user other than the caller; this covers the cache lookup of extract and
\* download_video.
C4_OwnRecordsOnly == resp.owners \subseteq {resp.caller}

\* C5: no record is stored whose transcript is a failure message of the
\* audio transcriber, and no extract is served one from the cache.
C5_NoFailureStored ==
    /\ \A d \in transcripts \cup memory :
         ~StartsWith(d.transcript_content, FailedPrefix)
    /\ resp.from_cache => ~StartsWith(resp.text, FailedPrefix)

\* The extract request behind response r ran the caption step and got no
\* text to store.
CaptionsGaveNothing(r) ==
    /\ r.op = "extract"
    /\ "captions" \in Steps(r.trace)
    /\ Steps(r.trace) \cap {"insights", "insights_empty", "save_memory"} = {}

Recognized(segment, method) ==
    segment.kind = "speech" /\ method \in {"google", "sphinx"}

\* The words of the recognized segments, in segment order.
RECURSIVE RecognizedWords(_, _)
RecognizedWords(segments, method) ==
    IF segments = <<>> THEN <<>>
    ELSE (IF Recognized(Head(segments), method)
          THEN Head(segments).words ELSE <<>>)
         \o RecognizedWords(Tail(segments), method)

\* C7: chunked transcription of N segments returns the concatenation, in
\* order, of exactly the texts of the segments that were recognized, and
\* an audit trail of N entries, one per segment in order.
C7_ChunkedConcatenation ==
    (chunked.called /\ ~chunked.result.error) =>
        /\ chunked.result.transcript =
              RecognizedWords(chunked.segments, chunked.method)
        /\ Len(chunked.result.chunks) = Len(chunked.segments)
        /\ \A i \in DOMAIN chunked.result.chunks :
              chunked.result.chunks[i].index = i - 1

\* C8: when concurrent extract requests for one source have all finished,
\* exactly one record exists for a source that was stored: the later store
\* has replaced the earlier one.
C8_RaceOverwrites ==
    (\A w \in Workers : inflight[w] = Idle) =>
        \A u \in ValidUrls : Cardinality(RecordsOf(u)) <= 1

C10_StoreWritesBoth ==
    /\ (ServedByExtract(resp) /\ ~resp.from_cache) =>
          /\ \E d \in RecordsOf(resp.url) : d.id = resp.id
          /\ \E d \in video_data : d.source_id = resp.id
    /\ \A d \in transcripts : get_transcript_by_url(d.video_url, "none").id # 0

\* The primary records (URL transcripts and upload transcripts) with an id.
PrimaryRecords(id) ==
    {p \in transcripts \cup video_transcriptions : p.id = id}

\* C11: every categorical record either is standalone (source_id None) or
\* has a source_id that refers to exactly one existing primary record; no
\* sequence of extract, upload, probe, delete, history deletion and
\* cleanup leaves a categorical record without its parent.
C11_NoOrphanCategorical ==
    \A d \in video_data :
        d.source_id = 0 \/ Cardinality(PrimaryRecords(d.source_id)) = 1

\* The users other than the owner of the URL transcript (kind "url") or
\* upload transcript (kind "video") with this id.
Strangers(kind, id) ==
    LET coll == IF kind = "url" THEN transcripts ELSE video_transcriptions
    IN  {c \in Users : \E d \in coll : d.id = id /\ d.user_id # c}

\* C12: a delete request for a record by a user who is not its owner is
\* answered not-found/denied (404) and leaves the primary stores and the
\* categorical store unchanged, on the delete-transcript route and on the
\* history route, whatever else fails during the request.
C12_ForeignDeleteDenied ==
    \A id \in Ids, f \in Faults :
        /\ \A c \in Strangers("url", id) :
              LET out == DeleteTranscriptOutcome(c, id, f)
              IN  /\ Written(out) = stores
                  /\ out.resp.code \in {404, 500}
                  /\ f = "none" => out.resp.code = 404
        /\ \A kind \in ItemTypes : \A c \in Strangers(kind, id) :
              LET out == DeleteHistoryItemOutcome(c, kind, id, f)
              IN  /\ Written(out) = stores
                  /\ out.resp.code \in {404, 500}
                  /\ f = "none" => out.resp.code = 404

\* A delete request was answered 404 while every id it could name belongs
\* to a record of user A: the request came from another user, for a record
\* of A.
C12_Witness ==
    /\ resp.op \in {"delete", "delete_history"}
    /\ resp.code = 404
    /\ \A id \in Ids : \E d \in transcripts \cup video_transcriptions :
          d.id = id /\ d.user_id = "A"
    /\ video_data # {}

\* C13: every temporary media file created while processing a remote
\* source or an upload is removed by the time the operation returns or
\* raises, whatever step fails.
C13_TempFilesRemoved ==
    (call.fn \in TempFunctions /\ call.called) => call.result.files = {}

\* The normalizer has run on a payload.
Normalized == call.fn = "extract_clean_text" /\ call.called

\* The format-specific extraction of the payload threw.
ExtractionThrew == ExtractText(call.payload).raised

\* The text of the payload is empty after the cleanup pass.
EmptyAfterCleanup ==
    LET r == ExtractText(call.payload)
    IN  ~r.raised /\ ~r.raw /\ r.words = <<>>

\* C14 (as stated): the normalizer never raises; if the format-specific
\* extraction throws, or if the text is empty after the cleanup pass, it
\* returns the original raw payload unchanged.
C14_RawPayloadFallback ==
    Normalized =>
        /\ ~call.result.raised
        /\ (ExtractionThrew \/ EmptyAfterCleanup) =>
              call.result = RawPayload(call.payload)

\* C14 (as the code has it): the normalizer never raises; if the
\* format-specific extraction throws it returns the original raw payload
\* unchanged; if the text is empty after the cleanup pass it returns the
\* empty string.
C14_NeverRaises ==
    Normalized =>
        /\ ~call.result.raised
        /\ ExtractionThrew => call.result = RawPayload(call.payload)
        /\ EmptyAfterCleanup => call.result = CleanText(<<>>)

\* The extraction threw on a payload with caption texts, and the raw
\* payload came back.
C14_Witness ==
    /\ Normalized
    /\ ExtractionThrew
    /\ call.payload.cues # <<>>
    /\ call.result.raw

\* C15: for the same sequence of caption texts the normalizer gives the
\* same cleaned output whether they arrive as a JSON event stream, as an
\* inline-tag payload or as a cue-format payload.
C15_FormatIndependent ==
    Normalized =>
        \A f1, f2 \in {"json", "xml", "vtt"} :
            extract_clean_text(Payload(f1, call.payload.cues))
                = extract_clean_text(Payload(f2, call.payload.cues))

\* Insight extraction has run on a text.
InsightsExtracted == call.fn = "extract_structured_data" /\ call.called

\* C16: insight extraction is deterministic: two runs on the same text,
\* with the same taxonomy and polarity scorer, give the same keywords in
\* the same order, topics, sentiment and readability.
C16_InsightsDeterministic ==
    InsightsExtracted =>
        \A f1, f2 \in {"none", "language"} :
            extract_structured_data(call.text, f1)
                = extract_structured_data(call.text, f2)

\* C17: for every text, the empty text, a text without terminal
\* punctuation and a text with very long sentences included, the
\* readability score lies in [0, 100] (in tenths: 0..1000).
C17_ReadabilityInRange ==
    InsightsExtracted =>
        /\ call.readability \in 0..1000
        /\ call.result.readability_score \in 0..1000

\* A text of one sentence of more than fifty words was scored.
C17_Witness ==
    /\ InsightsExtracted
    /\ ~call.result.empty
    /\ call.text.pieces = 1
    /\ WordCount(call.text) > 50
    /\ call.result.readability_score = 0

\* C18: in every insights object the label matches the stored score: it
\* is 'positive' iff the stored score is > 0.1, 'negative' iff it is
\* < -0.1, and 'neutral' otherwise (stored scores are in thousandths).
C18_LabelMatchesStoredScore ==
    (InsightsExtracted /\ ~call.result.empty) =>
        LET score == call.result.sentiment.score
            label == call.result.sentiment.label
        IN  /\ label = "positive" <=> score > 100
            /\ label = "negative" <=> score < -100
            /\ label = "neutral" <=> (score >= -100 /\ score <= 100)

\* C19: an exception inside insight extraction is caught and yields an
\* empty insights object; store still writes the base record with its
\* transcript text and returns its id, so the extract request succeeds
\* and the transcript is kept.
C19_InsightFailureTolerated ==
    \A c \in Users, u \in ValidUrls, text \in {CaptionText, AudioText} :
        LET st == store_transcript(nextId, u, c, text, "insights")
            out == ExtractStore(c, u, text, <<>>, "insights")
        IN  /\ extract_structured_data(TextOf(text), "scorer") = EmptyInsights
            /\ st.ok
            /\ out.resp.code = 200
            /\ out.resp.id = nextId
            /\ out.resp.text = text
            /\ IF use_memory
               THEN MemoryDoc(nextId, u, text) \in out.memory
               ELSE TranscriptDoc(nextId, u, c, text) \in out.transcripts

\* An extract request whose insight extraction failed was answered with
\* the transcript, and the record is in the store.
C19_Witness ==
    /\ resp.op = "extract"
    /\ resp.code = 200
    /\ "insights_empty" \in Steps(resp.trace)
    /\ \E d \in transcripts :
          /\ d.id = resp.id
          /\ d.transcript_content = resp.text
          /\ d.user_id = resp.caller

\* The last request was an extract that stored a new record.
StoredByExtract ==
    resp.op = "extract" /\ resp.code = 200 /\ ~resp.from_cache

\* C20: the memory-backed store satisfies the contract of the primary
\* store: after store(source, ..., user_id) returned id r, the lookup by
\* source returns the record, get(r) by its owner returns the same record,
\* and delete(r) by its owner removes it, in both modes alike.
C20_MemoryStoreSameContract ==
    StoredByExtract =>
        LET bySource == get_transcript_by_url(resp.url, "none")
            byId == GetTranscriptResponse(resp.caller, resp.id, "none")
            deleted == DeleteTranscriptOutcome(resp.caller, resp.id, "none")
        IN  /\ bySource.id = resp.id
            /\ bySource.transcript_content = resp.text
            /\ byId.code = 200
            /\ byId.text = resp.text
            /\ byId.owners = {resp.caller}
            /\ deleted.resp.code = 200
            /\ deleted.transcripts \cup deleted.memory
                  = (transcripts \cup memory)
                       \ {d \in transcripts \cup memory : d.id = resp.id}

\* C21: a source reference that matches no known URL shape is rejected as
\* invalid: the extract request returns no transcript, runs no caption or
\* audio extraction and writes nothing.
C21_InvalidSourceRejected ==
    \A c \in Users, u \in RequestUrls \ ValidUrls, m \in Methods,
       f \in Faults :
        \A o \in OutcomesOf(m) :
            \A out \in ExtractOutcomes(c, u, m, o, f) :
                /\ out.resp.code = 400
                /\ out.resp.detail = "invalid_url"
                /\ out.resp.text = <<>>
                /\ out.resp.id = 0
                /\ Steps(out.resp.trace) \cap WorkSteps = {}
                /\ Written(out) = stores
                /\ out.nextId = nextId

\* An extract request was rejected for its URL while records were stored.
C21_Witness ==
    /\ resp.op = "extract"
    /\ resp.code = 400
    /\ resp.detail = "invalid_url"
    /\ transcripts # {}
    /\ video_data # {}

\* C29: an extract request whose method is neither 'captions' nor 'audio'
\* is always rejected with an invalid-method error and never returns a
\* successful result or transcript content, whether or not a record for
\* the source is stored.
C29_InvalidMethodRejected ==
    \A c \in Users, u \in ValidUrls :
        \A out \in ExtractOutcomes(c, u, "other", "unused", "none") :
            /\ out.resp.code = 400
            /\ out.resp.detail = "invalid_method"
            /\ out.resp.text = <<>>

\* C24: a backend error during an extract request, in the lookup by
\* source or in the store write, reaches the caller as a service-level
\* failure (5xx); it is never taken for 'record not found', and no request
\* reports success without the transcript being stored.
C24_StorageFailurePropagates ==
    ~use_memory =>
        \A c \in Users, u \in ValidUrls, m \in {"captions", "audio"} :
            \A o \in OutcomesOf(m) :
                /\ \A out \in ExtractOutcomes(c, u, m, o, "url_find") :
                      /\ out.resp.code >= 500
                      /\ Written(out) = stores
                /\ \A f \in {"url_write", "categorical"} :
                      \A out \in ExtractOutcomes(c, u, m, o, f) :
                          "insert_primary" \in Steps(out.resp.trace)
                             \/ "insights" \in Steps(out.resp.trace)
                             => out.resp.code >= 500
                /\ \A f \in Faults :
                      \A out \in ExtractOutcomes(c, u, m, o, f) :
                          (out.resp.code = 200 /\ ~out.resp.from_cache) =>
                              \E d \in out.transcripts :
                                  /\ d.id = out.resp.id
                                  /\ d.transcript_content = out.resp.text

\* C23: the caption acquirer reports a network error while fetching
\* captions with an outcome other than the one it reports for a source
\* without captions, and the extract request surfaces the two differently
\* (retryable against 'no captions'); they are never the same value.
C23_NetworkErrorDistinguished ==
    /\ extract_clean_captions("error", "none")
          # extract_clean_captions("none", "none")
    /\ \A c \in Users, u \in ValidUrls :
          get_transcript_by_url(u, "none") = NoDoc =>
              \A a \in ExtractOutcomes(c, u, "captions", "error", "none"),
                 b \in ExtractOutcomes(c, u, "captions", "none", "none") :
                  a.resp # b.resp

\* C22: when the recognizer reports that it could not understand the
\* audio, the audio transcriber returns empty text and does not raise; the
\* returned text holds no failure message.
C22_NotUnderstoodIsEmptyText ==
    (chunked.called /\ ~chunked.result.error
        /\ chunked.method \in {"google", "sphinx"}) =>
        \A i \in DOMAIN chunked.segments :
            chunked.segments[i].kind = "not_understood" =>
                /\ transcribe_audio_file(chunked.segments[i],
                                         chunked.method) = <<>>
                /\ chunked.result.chunks[i].transcript = <<>>

\* C26: the normalizer tests for JSON-like structure, then inline-tag
\* markers, then the cue-format signature, and otherwise takes the payload
\* as plain text; a well-formed inline-tag or cue-format payload is
\* handled by its own branch, never by the JSON branch because of words in
\* its caption text.
C26_BranchByFormat ==
    (Normalized /\ call.payload.cues # <<>>
        /\ call.payload.format \in {"json", "xml", "vtt"}) =>
        FormatBranch(call.payload) = call.payload.format

\* C27: for every non-empty transcript text the readability score is
\* clamp(0, 100, 100 - 2 * W / S) rounded to one decimal, W the number of
\* whitespace-separated words, S the number of non-empty segments between
\* terminal punctuation.
C27_ReadabilityFormula ==
    (InsightsExtracted /\ WordCount(call.text) > 0) =>
        LET W == WordCount(call.text)
            S == call.text.pieces - call.text.blank
            raw == 1000 * S - 20 * W
            clamped == IF raw < 0 THEN 0
                       ELSE IF raw > 1000 * S THEN 1000 * S
                       ELSE raw
        IN  call.readability = RoundHalfEven(clamped, S)

\* C28: the keywords are the at most 10 most frequent lower-cased words of
\* three letters or more outside the stop-word set, by falling frequency;
\* a word of three letters that is no stop word and among the 10 most
\* frequent is a keyword, and no stop word is.
C28_KeywordsOfThreeLettersOrMore ==
    (InsightsExtracted /\ ~call.result.empty) =>
        LET tokens == call.text.tokens
            words == [i \in DOMAIN tokens |-> LowerCase(tokens[i])]
            eligible == {w \in {words[i] : i \in DOMAIN words} :
                            w \notin StopWords /\ Letters(w) >= 3}
            keywords == call.result.keywords
            listed == {keywords[i] : i \in DOMAIN keywords}
        IN  /\ Len(keywords) <= TopKeywords
            /\ Cardinality(listed) = Len(keywords)
            /\ listed \subseteq eligible
            /\ listed \cap StopWords = {}
            /\ \A i, j \in DOMAIN keywords :
                 i < j => CountOf(words, keywords[i])
                              >= CountOf(words, keywords[j])
            /\ \A w \in eligible \ listed :
                 /\ Len(keywords) = TopKeywords
                 /\ \A k \in listed : CountOf(words, k) >= CountOf(words, w)

\* C25: caption acquisition tries the manual captions in the order en,
\* en-US, en-GB and then the automatic captions in the same order; it
\* returns the payload of the first track in that order whose fetch
\* answers 200, never an automatic track when a manual one was
\* retrievable, and None when no track can be retrieved.
CaptionsSearched == call.fn = "extract_clean_captions" /\ call.called

C25_FirstRetrievableTrack ==
    CaptionsSearched =>
        LET fetch == call.fetch
            rank(kind, lang) ==
                3 * (CHOOSE k \in DOMAIN CaptionKinds :
                        CaptionKinds[k] = kind)
                + (CHOOSE l \in DOMAIN CaptionLanguages :
                        CaptionLanguages[l] = lang)
            retrievable == {t \in Kinds \X Languages :
                              fetch[t[1]][t[2]] = "ok"}
        IN  /\ retrievable = {} => call.result = NoTrack
            /\ \A t \in retrievable :
                 (\A o \in retrievable : rank(t[1], t[2]) <= rank(o[1], o[2]))
                     => call.result = TrackPayload(t[1], t[2])
            /\ (\E lang \in Languages : fetch["subtitles"][lang] = "ok")
                 => call.result.kind # "automatic_captions"

\* C30: once every send-message, add-ai-response and delete-message
\* request has completed, whatever their interleaving (two concurrent
\* deletes of one message included), each session's message_count is the
\* number of messages stored for the session, and is not negative.
ChatQuiet == \A w \in Workers : chatting[w] = ChatIdle

C30_MessageCountMatches ==
    ChatQuiet =>
        \A x \in sessions :
            /\ x.message_count =
                 Cardinality({m \in messages : m.session_id = x.id})
            /\ x.message_count >= 0

====
